---- MODULE Spec2Model ----
(***************************************************************************)
(* Model of src/wkwebview/drag_drop.rs: the four NSDraggingDestination     *)
(* callbacks of WryWebView (dragging_entered, dragging_updated,            *)
(* perform_drag_operation, dragging_exited) and collect_paths.             *)
(*                                                                         *)
(* Every callback is one atomic action.  The calls a callback makes on its *)
(* collaborators (pasteboard, listener, tiddlydesktop_* functions, the     *)
(* superclass) are logged, in program order, in `trace`; the value the     *)
(* callback returns is `ret`.                                              *)
(*                                                                         *)
(* Characters are symbolic: "a" and "b" are ordinary characters, "BSL" is  *)
(* the backslash, "QUO" the double quote, "LF" a control character (line   *)
(* feed), "NUL" the zero byte, "LBR" "RBR" "COM" are [ ] and the comma.    *)
(* A string is a sequence of characters.                                   *)
(*                                                                         *)
(* Coordinates (f64 in the source) are integers counting eighths of a      *)
(* pixel; such values are exact in f64, and so is their difference.        *)
(***************************************************************************)
EXTENDS Integers, Sequences, FiniteSets, TLC

VARIABLES
  phase,         \* "idle" | "outside" | "inside" | "aborted": where the OS drag session is
  payload,       \* the dragging pasteboard: one value per representation kind
  frame_height,  \* this.frame().size.height, in eighths
  stage,         \* the callback that ran last: "none" | "Enter" | "Over" | "Drop" | "Leave"
  trace,         \* the collaborator calls of the callback that ran last, in order
  ret            \* what that callback returned ("panic" when it did not return)

vars == <<phase, payload, frame_height, stage, trace, ret>>

-----------------------------------------------------------------------------
(* Bounds *)

\* the longest file list a payload carries
MaxPaths == 2

-----------------------------------------------------------------------------
(* Inputs *)

\* the file names drag sources put on the pasteboard
PathPool ==
  { <<"a">>,
    <<"BSL", "QUO", "COM", "NUL", "b">>,
    <<"a", "LF">> }

\* an element of the file-list property list: an NSString or some other object
PlistItems ==
  { [isString |-> TRUE, chars |-> s] : s \in PathPool }
    \cup { [isString |-> FALSE, chars |-> <<>>] }

SeqsUpTo(S, n) == UNION { [1..k -> S] : k \in 0..n }

\* the NSFilenamesPboardType representation (payload.files): not offered, or offered with a
\* property list that is nil, not an array, or an array
FileLists ==
  { [avail |-> FALSE, plist |-> "nil", items |-> <<>>],
    [avail |-> TRUE, plist |-> "nil", items |-> <<>>],
    [avail |-> TRUE, plist |-> "other", items |-> <<>>] }
    \cup { [avail |-> TRUE, plist |-> "array", items |-> its] :
             its \in SeqsUpTo(PlistItems, MaxPaths) }

\* a string representation of the payload: absent, or a string
NoRep == [present |-> FALSE, s |-> <<>>]
Rep(s) == [present |-> TRUE, s |-> s]
OldReps == { NoRep, Rep(<<"o">>) }

\* the pasteboard types of the model
TextType == "public.utf8-plain-text"
TiddlerType == "text/vnd.tiddler"
HtmlType == "public.html"

StringTypes == { TextType, TiddlerType, HtmlType }

\* a payload: the file list and one optional string per string type
Payloads ==
  { [files |-> f, reps |-> r] :
      f \in FileLists,
      r \in { rr \in [StringTypes -> OldReps] : rr[HtmlType].present } }

\* draggingLocation(): <<x, y>> in eighths, origin bottom-left
Locations == { <<85, 12>>, <<-5, 2320>> }

\* surface heights in eighths
Heights == { 2400, 7 }

\* NSDragOperation codes the superclass may answer
DragOperations == { "None", "Copy", "Move" }

\* what tiddlydesktop_has_internal_drag() may return (i32)
HasInternalValues == { 0, 1, -1 }

\* what tiddlydesktop_get_internal_drag_*() may return: a null pointer, or a
\* C string that is or is not valid UTF-8
NullPtr == [null |-> TRUE, utf8 |-> FALSE, s |-> <<>>]
BadUtf8 == [null |-> FALSE, utf8 |-> FALSE, s |-> <<"xFF">>]
CStrOf(s) == [null |-> FALSE, utf8 |-> TRUE, s |-> s]
Replacements == { NullPtr, BadUtf8, CStrOf(<<"n">>), CStrOf(<<"m">>) }

-----------------------------------------------------------------------------
(* Pure helpers *)

\* a cast that rounds down instead
AsI32_Floor(v) == v \div 8

\* `v as i32` for an f64 v (in eighths): truncation toward zero
AsI32(v) == IF v >= 0 THEN v \div 8 ELSE -((-v) \div 8)

\* position = (dl.x as i32, (frame.size.height - dl.y) as i32)
Position(dl, height) == <<AsI32(dl[1]), AsI32(height - dl[2])>>

\* CStr::from_ptr(p): the bytes before the first NUL
RECURSIVE CStrFromPtr(_)
CStrFromPtr(s) ==
  IF s = <<>> \/ Head(s) = "NUL" THEN <<>>
  ELSE <<Head(s)>> \o CStrFromPtr(Tail(s))

\* collect_paths building its vector back to front
collect_paths_Reversed(pb) ==
  IF ~pb.avail THEN [panic |-> FALSE, paths |-> <<>>]
  ELSE IF pb.plist # "array" \/ (\E i \in 1..Len(pb.items) : ~pb.items[i].isString)
         THEN [panic |-> TRUE, paths |-> <<>>]
  ELSE [panic |-> FALSE,
        paths |-> [i \in 1..Len(pb.items) |->
                     CStrFromPtr(pb.items[Len(pb.items) + 1 - i].chars)]]

\* lines 23-31: the pasteboard offers no file list -> no paths; otherwise the
\* property list is unwrapped as an NSArray of NSString (each unwrap panics
\* on anything else) and every element becomes one path, in order
collect_paths(pb) ==
  IF ~pb.avail THEN [panic |-> FALSE, paths |-> <<>>]
  ELSE IF pb.plist = "nil" THEN [panic |-> TRUE, paths |-> <<>>]
  ELSE IF pb.plist # "array" THEN [panic |-> TRUE, paths |-> <<>>]
  ELSE IF \E i \in 1..Len(pb.items) : ~pb.items[i].isString
         THEN [panic |-> TRUE, paths |-> <<>>]
  ELSE [panic |-> FALSE,
        paths |-> [i \in 1..Len(pb.items) |-> CStrFromPtr(pb.items[i].chars)]]

\* str::replace(from, to) for a single character `from`
RECURSIVE Replace(_, _, _)
Replace(s, from, to) ==
  IF s = <<>> THEN <<>>
  ELSE (IF Head(s) = from THEN to ELSE <<Head(s)>>) \o Replace(Tail(s), from, to)

\* line 110: s.replace('\\', "\\\\").replace('"', "\\\"")
Escaped(s) == Replace(Replace(s, "BSL", <<"BSL", "BSL">>), "QUO", <<"BSL", "QUO">>)

\* line 111: format!("\"{}\"", escaped)
JsonPart(p) == <<"QUO">> \o Escaped(p) \o <<"QUO">>

\* json_parts.join(",")
RECURSIVE Join(_)
Join(parts) ==
  IF parts = <<>> THEN <<>>
  ELSE IF Len(parts) = 1 THEN parts[1]
  ELSE parts[1] \o <<"COM">> \o Join(Tail(parts))

\* lines 106-114: the JSON text built from the paths
PathsJson(paths) ==
  <<"LBR">> \o Join([i \in 1..Len(paths) |-> JsonPart(paths[i])]) \o <<"RBR">>

\* line 115: CString::new fails on an interior zero byte
CStringNewOk(s) == \A i \in 1..Len(s) : s[i] # "NUL"

\* line 94: tiddlydesktop_has_internal_drag() != 0
IsInternalDrag(raw) == raw # 0

\* the three routing tests of perform_drag_operation (lines 100, 124, 136)
ShouldStore(is_internal_drag, paths) == ~is_internal_drag /\ paths # <<>>
\* the second routing test without its paths.is_empty() conjunct
ShouldDispatchDrop_AnyExternal(is_internal_drag, paths) == ~is_internal_drag
ShouldDispatchDrop(is_internal_drag, paths) == ~is_internal_drag /\ paths = <<>>
\* the third routing test passing for every drop
ShouldRewrite_Always(is_internal_drag) == TRUE
ShouldRewrite(is_internal_drag) == is_internal_drag

-----------------------------------------------------------------------------
(* Trace entries: one per collaborator call *)

CallCollect(paths) == [op |-> "collect_paths", res |-> paths]
CallLocation(dl) == [op |-> "draggingLocation", res |-> dl]
CallFrame(h) == [op |-> "frame", res |-> h]
CallClassify(raw) == [op |-> "has_internal_drag", res |-> raw]
CallStore(json) == [op |-> "store_drop_paths", arg |-> json]
CallListener(event, claimed) == [op |-> "listener", event |-> event, res |-> claimed]
CallGet(fn, ptr) == [op |-> "get_internal_drag", fn |-> fn, res |-> ptr]
CallSetString(kind, s) == [op |-> "setString", kind |-> kind, value |-> s]
CallSuper(sel, res) == [op |-> "super", sel |-> sel, res |-> res]
\* the superclass's performDragOperation reads the pasteboard as it is then
CallPerform(pb, accepted) ==
  [op |-> "super", sel |-> "performDragOperation", sees |-> pb, res |-> accepted]

EnterEvent(paths, position) == [type |-> "Enter", paths |-> paths, position |-> position]
OverEvent(position) == [type |-> "Over", position |-> position]
DropEvent(paths, position) == [type |-> "Drop", paths |-> paths, position |-> position]
LeaveEvent == [type |-> "Leave"]

-----------------------------------------------------------------------------
(* The bodies of the callbacks *)

\* an enter handler that calls the superclass whatever the listener said
EnterOutcome_IgnoresClaim(claimed, os_operation) ==
  [calls |-> <<CallSuper("draggingEntered", os_operation)>>, ret |-> os_operation]

\* lines 45-50: the listener decides between the superclass and Copy
EnterOutcome(claimed, os_operation) ==
  IF ~claimed
    THEN [calls |-> <<CallSuper("draggingEntered", os_operation)>>, ret |-> os_operation]
    ELSE [calls |-> <<>>, ret |-> "Copy"]

\* an override that answers Copy whatever the superclass said
OverrideNone_AlwaysCopy(os_operation) == "Copy"

\* lines 65-73: None from the superclass becomes Copy
OverrideNone(os_operation) ==
  IF os_operation = "None" THEN "Copy" ELSE os_operation

\* lines 62-77
OverOutcome(claimed, os_operation) ==
  IF ~claimed
    THEN [calls |-> <<CallSuper("draggingUpdated", os_operation)>>,
          ret |-> OverrideNone(os_operation)]
    ELSE [calls |-> <<>>, ret |-> "Copy"]

\* an exit handler that calls the superclass whatever the listener said
ExitOutcome_AlwaysSuper(claimed) ==
  [calls |-> <<CallSuper("draggingExited", "void")>>, ret |-> "void"]

\* lines 179-182
ExitOutcome(claimed) ==
  IF ~claimed
    THEN [calls |-> <<CallSuper("draggingExited", "void")>>, ret |-> "void"]
    ELSE [calls |-> <<>>, ret |-> "void"]

\* lines 100-120: the paths go to the store as JSON, if a CString can be made
StoreCalls(is_internal_drag, paths) ==
  IF ShouldStore(is_internal_drag, paths) /\ CStringNewOk(PathsJson(paths))
    THEN <<CallStore(PathsJson(paths))>>
    ELSE <<>>

\* a second routing test that asks tiddlydesktop_has_internal_drag() again
DropDispatchCalls_Requery(is_internal_drag, paths, position, claimed) ==
  <<CallClassify(IF is_internal_drag THEN 1 ELSE 0)>>
    \o (IF ~is_internal_drag /\ paths = <<>>
          THEN <<CallListener(DropEvent(paths, position), claimed)>>
          ELSE <<>>)

\* lines 124-130: the Drop event; the listener's answer is dropped
DropDispatchCalls(is_internal_drag, paths, position, claimed) ==
  IF ShouldDispatchDrop(is_internal_drag, paths)
    THEN <<CallListener(DropEvent(paths, position), claimed)>>
    ELSE <<>>

\* a rewriter that decodes lossily and so writes whenever the pointer is not null
FixRepresentation_Lossy(fn, kind, ptr) ==
  <<[op |-> "get_internal_drag", fn |-> fn, res |-> ptr]>>
    \o (IF ~ptr.null THEN <<[op |-> "setString", kind |-> kind, value |-> ptr.s]>> ELSE <<>>)

\* a rewriter that takes a null pointer for the empty string
FixRepresentation_NullClears(fn, kind, ptr) ==
  <<[op |-> "get_internal_drag", fn |-> fn, res |-> ptr]>>
    \o (IF ptr.null THEN <<[op |-> "setString", kind |-> kind, value |-> <<>>]>>
        ELSE IF ptr.utf8 THEN <<[op |-> "setString", kind |-> kind, value |-> ptr.s]>>
        ELSE <<>>)

\* lines 148-156 and 159-167: one representation is fetched and, when the
\* pointer is not null and the C string is UTF-8, written with setString
FixRepresentation(fn, kind, ptr) ==
  <<CallGet(fn, ptr)>>
    \o (IF ~ptr.null /\ ptr.utf8 THEN <<CallSetString(kind, ptr.s)>> ELSE <<>>)

\* lines 136-170
RewriteCalls(is_internal_drag, text_ptr, tiddler_ptr) ==
  IF ShouldRewrite(is_internal_drag)
    THEN FixRepresentation("text_plain", TextType, text_ptr)
           \o FixRepresentation("tiddler_json", TiddlerType, tiddler_ptr)
    ELSE <<>>

\* a drop handler that lets a claiming listener suppress the superclass
PerformOutcome_ClaimSuppresses(pb, dispatch_calls, accepted) ==
  IF dispatch_calls # <<>> /\ dispatch_calls[1].res
    THEN [calls |-> <<>>, ret |-> "YES"]
    ELSE [calls |-> <<CallPerform(pb, accepted)>>, ret |-> accepted]

\* a drop handler that tells the listener after the superclass has performed
PerformOutcome_ListenerAfter(pb, dispatch_calls, accepted) ==
  [calls |-> <<CallPerform(pb, accepted)>> \o dispatch_calls, ret |-> accepted]

\* line 174: the superclass performs the drop and its answer is returned
PerformOutcome(pb, dispatch_calls, accepted) ==
  [calls |-> <<CallPerform(pb, accepted)>>, ret |-> accepted]

\* NSPasteboard setString:forType: (lines 154, 165)
setString(pb, s, kind) == [pb EXCEPT !.reps[kind] = Rep(s)]

\* the pasteboard after the setString calls of a trace, in order
RECURSIVE ApplyCalls(_, _)
ApplyCalls(pb, calls) ==
  IF calls = <<>> THEN pb
  ELSE ApplyCalls(IF Head(calls).op = "setString"
                    THEN setString(pb, Head(calls).value, Head(calls).kind)
                    ELSE pb,
                  Tail(calls))

-----------------------------------------------------------------------------
(* Actions *)

\* the answers of a collaborator that is consulted only when `asked` holds
AnswersIf(asked, answers, unused) == IF asked THEN answers ELSE {unused}

\* a panic inside a callback: the callback does not return
Panicked(name) ==
  /\ phase' = "aborted"
  /\ stage' = name
  /\ trace' = <<>>
  /\ ret' = "panic"
  /\ UNCHANGED <<payload, frame_height>>

\* the OS starts a drag session with some payload, outside the view
BeginDrag ==
  /\ phase = "idle"
  /\ \E pb \in Payloads : payload' = pb
  /\ phase' = "outside"
  /\ stage' = "none"
  /\ trace' = <<>>
  /\ ret' = "none"
  /\ UNCHANGED frame_height

\* the drag session ends outside the view
EndDrag ==
  /\ phase = "outside"
  /\ phase' = "idle"
  /\ UNCHANGED <<payload, frame_height, stage, trace, ret>>

\* the surface is resized between callbacks
Resize ==
  /\ phase # "aborted"
  /\ \E h \in Heights \ {frame_height} : frame_height' = h
  /\ UNCHANGED <<phase, payload, stage, trace, ret>>

\* lines 35-51
dragging_entered ==
  /\ phase = "outside"
  /\ \E dl \in Locations, claimed \in BOOLEAN :
     \E os_operation \in (IF claimed THEN {"None"} ELSE DragOperations) :
       LET cp == collect_paths(payload.files)
           position == Position(dl, frame_height)
           out == EnterOutcome(claimed, os_operation)
       IN IF cp.panic THEN Panicked("Enter")
          ELSE /\ phase' = "inside"
               /\ stage' = "Enter"
               /\ trace' = <<CallCollect(cp.paths), CallLocation(dl), CallFrame(frame_height),
                             CallListener(EnterEvent(cp.paths, position), claimed)>>
                             \o out.calls
               /\ ret' = out.ret
               /\ UNCHANGED <<payload, frame_height>>

\* lines 53-78
dragging_updated ==
  /\ phase = "inside"
  /\ \E dl \in Locations, claimed \in BOOLEAN :
     \E os_operation \in (IF claimed THEN {"None"} ELSE DragOperations) :
       LET position == Position(dl, frame_height)
           out == OverOutcome(claimed, os_operation)
       IN /\ stage' = "Over"
          /\ trace' = <<CallLocation(dl), CallFrame(frame_height),
                        CallListener(OverEvent(position), claimed)>>
                        \o out.calls
          /\ ret' = out.ret
          /\ UNCHANGED <<phase, payload, frame_height>>

\* lines 80-175
perform_drag_operation ==
  /\ phase = "inside"
  /\ \E dl \in Locations, raw \in HasInternalValues, accepted \in {"YES", "NO"} :
     \E claimed \in AnswersIf(ShouldDispatchDrop(IsInternalDrag(raw),
                                                  collect_paths(payload.files).paths),
                               BOOLEAN, FALSE),
        text_ptr \in AnswersIf(ShouldRewrite(IsInternalDrag(raw)), Replacements, NullPtr),
        tiddler_ptr \in AnswersIf(ShouldRewrite(IsInternalDrag(raw)), Replacements, NullPtr) :
       LET cp == collect_paths(payload.files)
           position == Position(dl, frame_height)
           is_internal_drag == IsInternalDrag(raw)
           dispatch == DropDispatchCalls(is_internal_drag, cp.paths, position, claimed)
           before == <<CallCollect(cp.paths), CallLocation(dl), CallFrame(frame_height),
                       CallClassify(raw)>>
                       \o StoreCalls(is_internal_drag, cp.paths)
                       \o dispatch
                       \o RewriteCalls(is_internal_drag, text_ptr, tiddler_ptr)
           out == PerformOutcome(ApplyCalls(payload, before), dispatch, accepted)
           calls == before \o out.calls
       IN IF cp.panic THEN Panicked("Drop")
          ELSE /\ phase' = "idle"
               /\ stage' = "Drop"
               /\ trace' = calls
               /\ ret' = out.ret
               /\ payload' = ApplyCalls(payload, calls)
               /\ UNCHANGED frame_height

\* lines 177-183
dragging_exited ==
  /\ phase = "inside"
  /\ \E claimed \in BOOLEAN :
       LET out == ExitOutcome(claimed)
       IN /\ phase' = "outside"
          /\ stage' = "Leave"
          /\ trace' = <<CallListener(LeaveEvent, claimed)>> \o out.calls
          /\ ret' = out.ret
          /\ UNCHANGED <<payload, frame_height>>

Init ==
  /\ phase = "idle"
  /\ payload = [files |-> [avail |-> FALSE, plist |-> "nil", items |-> <<>>],
                reps |-> [k \in StringTypes |-> IF k = HtmlType THEN Rep(<<"h">>) ELSE NoRep]]
  /\ frame_height \in Heights
  /\ stage = "none"
  /\ trace = <<>>
  /\ ret = "none"

Next ==
  \/ BeginDrag
  \/ EndDrag
  \/ Resize
  \/ dragging_entered
  \/ dragging_updated
  \/ perform_drag_operation
  \/ dragging_exited

Spec == Init /\ [][Next]_vars

-----------------------------------------------------------------------------
(* Reading the trace of the callback that ran last *)

Calls(op) == SelectSeq(trace, LAMBDA e : e.op = op)
Count(op) == Len(Calls(op))

\* the paths and the classification the drop callback worked with
DropPaths == Calls("collect_paths")[1].res
DropIsInternal == Calls("has_internal_drag")[1].res # 0

ListenerCalls == Calls("listener")
SuperCalls == Calls("super")
StoreCallsMade == Calls("store_drop_paths")
RewriterRan == Count("get_internal_drag") = 2
RewriterIdle == Count("get_internal_drag") = 0 /\ Count("setString") = 0

-----------------------------------------------------------------------------
(* Claims *)

\* C1: in a drop callback, for every value of (classification, paths), exactly
\* one of the three routes runs and the other two do not: External with paths
\* -> the paths go to the store, no listener call, no rewriting; External
\* without paths -> the listener gets Drop{paths: [], position}, nothing is
\* stored, no rewriting; Internal -> the rewriter runs, no listener call,
\* nothing stored.
C1_RoutingExclusive ==
  stage = "Drop" =>
    /\ (~DropIsInternal /\ DropPaths # <<>>) =>
         Len(StoreCallsMade) = 1 /\ ListenerCalls = <<>> /\ RewriterIdle
    /\ (~DropIsInternal /\ DropPaths = <<>>) =>
         /\ StoreCallsMade = <<>> /\ RewriterIdle
         /\ Len(ListenerCalls) = 1
         /\ ListenerCalls[1].event.type = "Drop"
         /\ ListenerCalls[1].event.paths = <<>>
    /\ DropIsInternal =>
         StoreCallsMade = <<>> /\ ListenerCalls = <<>> /\ RewriterRan

\* C1 witness: an External drop with two paths went to the store only
C1_Witness ==
  /\ stage = "Drop" /\ ~DropIsInternal /\ Len(DropPaths) = 2
  /\ Len(StoreCallsMade) = 1 /\ ListenerCalls = <<>> /\ RewriterIdle

\* C2: every drop callback invokes the superclass's performDragOperation
\* exactly once and returns the boolean it reported, whatever the listener
\* answered.
C2_PerformAlwaysOnce ==
  stage = "Drop" =>
    /\ Len(SuperCalls) = 1
    /\ SuperCalls[1].sel = "performDragOperation"
    /\ ret = SuperCalls[1].res

\* C2 witness: the listener claimed a Drop event, and the superclass was still
\* asked and its refusal returned
C2_Witness ==
  /\ stage = "Drop" /\ Len(ListenerCalls) = 1 /\ ListenerCalls[1].res
  /\ Len(SuperCalls) = 1 /\ SuperCalls[1].res = "NO" /\ ret = "NO"

\* C3: an Enter callback calls the listener exactly once with Enter{paths,
\* position}; not claimed -> the superclass's draggingEntered is invoked once
\* and its code returned unchanged; claimed -> the superclass is not invoked
\* and Copy is returned.
C3_EnterDispatch ==
  stage = "Enter" =>
    /\ Len(ListenerCalls) = 1
    /\ ListenerCalls[1].event.type = "Enter"
    /\ ~ListenerCalls[1].res =>
         /\ Len(SuperCalls) = 1
         /\ SuperCalls[1].sel = "draggingEntered"
         /\ ret = SuperCalls[1].res
    /\ ListenerCalls[1].res => SuperCalls = <<>> /\ ret = "Copy"

\* C4: an Over callback calls the listener exactly once with Over{position};
\* claimed -> no superclass call, Copy; not claimed -> the superclass's
\* draggingUpdated is invoked once and the result is Copy when it said None
\* and its own code otherwise.
C4_OverDispatch ==
  stage = "Over" =>
    /\ Len(ListenerCalls) = 1
    /\ ListenerCalls[1].event.type = "Over"
    /\ ListenerCalls[1].res => SuperCalls = <<>> /\ ret = "Copy"
    /\ ~ListenerCalls[1].res =>
         /\ Len(SuperCalls) = 1
         /\ SuperCalls[1].sel = "draggingUpdated"
         /\ (SuperCalls[1].res = "None" => ret = "Copy")
         /\ (SuperCalls[1].res # "None" => ret = SuperCalls[1].res)

\* C4 witness: the listener declined, the superclass said Move, Move came back
C4_Witness ==
  /\ stage = "Over" /\ Len(ListenerCalls) = 1 /\ ~ListenerCalls[1].res
  /\ Len(SuperCalls) = 1 /\ SuperCalls[1].res = "Move" /\ ret = "Move"

\* C5: a Leave callback calls the listener exactly once with Leave, and the
\* superclass's draggingExited is invoked iff the listener did not claim.
C5_LeaveDispatch ==
  stage = "Leave" =>
    /\ Len(ListenerCalls) = 1
    /\ ListenerCalls[1].event = LeaveEvent
    /\ (Len(SuperCalls) = 1 /\ SuperCalls[1].sel = "draggingExited") <=> ~ListenerCalls[1].res
    /\ SuperCalls = <<>> <=> ListenerCalls[1].res

\* C5 witness: the listener claimed Leave and the superclass was not called
C5_Witness ==
  stage = "Leave" /\ Len(ListenerCalls) = 1 /\ ListenerCalls[1].res /\ SuperCalls = <<>>

-----------------------------------------------------------------------------
(* C6: the position in the events *)

Abs(n) == IF n >= 0 THEN n ELSE -n

\* r is an integer nearest to v/8
IsRoundOf(r, v) == Abs(2 * v - 16 * r) <= 8

\* t is the integer part of v/8: the integer of largest magnitude between 0
\* and v/8
IsIntegerPartOf(t, v) ==
  /\ 8 * Abs(t) <= Abs(v)
  /\ Abs(v) < 8 * (Abs(t) + 1)
  /\ (t > 0 => v > 0) /\ (t < 0 => v < 0)

\* the events of the last callback that carry a position
PositionedEvents ==
  SelectSeq(ListenerCalls, LAMBDA c : c.event.type \in {"Enter", "Over", "Drop"})

\* the location and the surface height read by the last callback
ReadLocation == Calls("draggingLocation")[1].res
ReadHeight == Calls("frame")[1].res

\* C6 (as stated): the position placed in the Enter, Over and Drop events is
\* (round(x), round(h - y)), each coordinate rounded to the nearest integer,
\* with h the surface height read in that same callback.
C6_PositionRounded ==
  \A i \in 1..Len(PositionedEvents) :
    /\ IsRoundOf(PositionedEvents[i].event.position[1], ReadLocation[1])
    /\ IsRoundOf(PositionedEvents[i].event.position[2], ReadHeight - ReadLocation[2])

\* C6 (amended): the position placed in the Enter, Over and Drop events is
\* (trunc(x), trunc(h - y)), each coordinate cut to its integer part (toward
\* zero), with h the surface height read in that same callback.
C6_PositionTruncated ==
  \A i \in 1..Len(PositionedEvents) :
    /\ IsIntegerPartOf(PositionedEvents[i].event.position[1], ReadLocation[1])
    /\ IsIntegerPartOf(PositionedEvents[i].event.position[2], ReadHeight - ReadLocation[2])

\* C6 witness: x = 10.625 became 10, and h - y = 300 - 1.5 = 298.5 became 298
C6_Witness ==
  /\ Len(PositionedEvents) = 1
  /\ ReadLocation[1] = 85 /\ PositionedEvents[1].event.position[1] = 10
  /\ ReadHeight - ReadLocation[2] = 2388 /\ PositionedEvents[1].event.position[2] = 298

-----------------------------------------------------------------------------
(* C7, C8: the pasteboard rewriter *)

\* the representation each tiddlydesktop_get_internal_drag_* function is for
KindOf(fn) == IF fn = "text_plain" THEN TextType ELSE TiddlerType

GetCalls == Calls("get_internal_drag")

\* the pasteboard as the superclass's performDragOperation found it
SeenByPerform == SuperCalls[1].sees

\* the kinds written before the superclass was called
WrittenKinds == { Calls("setString")[i].kind : i \in 1..Len(Calls("setString")) }

InternalDrop == stage = "Drop" /\ DropIsInternal

C8_OthersUntouched ==
  [][(stage' = "Drop" /\ Calls("has_internal_drag")'[1].res # 0) =>
       /\ payload'.files = payload.files
       /\ payload'.reps[HtmlType] = payload.reps[HtmlType]
       /\ \A i \in 1..Len(GetCalls') :
            GetCalls'[i].res.null =>
              payload'.reps[KindOf(GetCalls'[i].fn)] = payload.reps[KindOf(GetCalls'[i].fn)]
    ]_vars

\* C8 witness: the text replacement was null while the tiddler one was written;
\* the old text and the file list are still there
C8_Witness ==
  /\ InternalDrop /\ Len(GetCalls) = 2
  /\ GetCalls[1].fn = "text_plain" /\ GetCalls[1].res.null
  /\ ~GetCalls[2].res.null /\ TiddlerType \in WrittenKinds
  /\ payload.reps[TextType] = Rep(<<"o">>)
  /\ Len(payload.files.items) = 2

-----------------------------------------------------------------------------
(* C9: the JSON handed to the store *)

\* characters JSON does not allow unescaped inside a string (U+0000..U+001F)
ControlChars == { "LF", "NUL" }

JsonBad == [ok |-> FALSE, strings |-> <<>>]

\* a reader for a JSON array of strings without white space (RFC 8259):
\* mode is where the reader is, cur the string being read, acc the strings read
RECURSIVE JsonRead(_, _, _, _)
JsonRead(s, mode, cur, acc) ==
  IF s = <<>> THEN [ok |-> mode = "end", strings |-> acc]
  ELSE LET c == Head(s)
           r == Tail(s)
       IN CASE mode = "open" ->
                 IF c = "LBR" THEN JsonRead(r, "first", <<>>, acc) ELSE JsonBad
            [] mode = "first" ->
                 IF c = "RBR" THEN JsonRead(r, "end", <<>>, acc)
                 ELSE IF c = "QUO" THEN JsonRead(r, "string", <<>>, acc)
                 ELSE JsonBad
            [] mode = "element" ->
                 IF c = "QUO" THEN JsonRead(r, "string", <<>>, acc) ELSE JsonBad
            [] mode = "string" ->
                 IF c = "QUO" THEN JsonRead(r, "after", <<>>, Append(acc, cur))
                 ELSE IF c = "BSL" THEN JsonRead(r, "escape", cur, acc)
                 ELSE IF c \in ControlChars THEN JsonBad
                 ELSE JsonRead(r, "string", Append(cur, c), acc)
            [] mode = "escape" ->
                 IF c \in {"QUO", "BSL"} THEN JsonRead(r, "string", Append(cur, c), acc)
                 ELSE IF c = "b" THEN JsonRead(r, "string", Append(cur, "BS"), acc)
                 ELSE JsonBad
            [] mode = "after" ->
                 IF c = "COM" THEN JsonRead(r, "element", <<>>, acc)
                 ELSE IF c = "RBR" THEN JsonRead(r, "end", <<>>, acc)
                 ELSE JsonBad
            [] OTHER -> JsonBad

JsonParse(s) == JsonRead(s, "open", <<>>, <<>>)

\* C9: the string handed to the pending-drop-path store is a valid JSON array
\* of strings for any path sequence, and parsing it gives the paths back in
\* order.
C9_StoredJsonValid ==
  \A i \in 1..Len(StoreCallsMade) :
    /\ JsonParse(StoreCallsMade[i].arg).ok
    /\ JsonParse(StoreCallsMade[i].arg).strings = DropPaths

-----------------------------------------------------------------------------
(* C10: collect_paths *)

\* the callback that ran last collected paths
Collected == Count("collect_paths") = 1
CollectedPaths == Calls("collect_paths")[1].res

\* p is s up to its first zero byte, all of s when it has none
IsCStringOf(p, s) ==
  /\ Len(p) <= Len(s)
  /\ \A k \in 1..Len(p) : p[k] = s[k] /\ p[k] # "NUL"
  /\ Len(p) < Len(s) => s[Len(p) + 1] = "NUL"

\* the payload's file list is an array of N filenames
HoldsFilenames(pb) ==
  pb.avail /\ pb.plist = "array" /\ \A i \in 1..Len(pb.items) : pb.items[i].isString

\* C10: collect_paths gives the empty sequence when the payload offers no file
\* list, and for a file list of N filenames gives N paths, the i-th path being
\* the i-th filename (duplicates kept).
C10_CollectPaths ==
  Collected =>
    /\ ~payload.files.avail => CollectedPaths = <<>>
    /\ HoldsFilenames(payload.files) =>
         /\ Len(CollectedPaths) = Len(payload.files.items)
         /\ \A i \in 1..Len(CollectedPaths) :
              IsCStringOf(CollectedPaths[i], payload.files.items[i].chars)

\* C10 witness: a file list naming two different files came out in its order
C10_Witness ==
  /\ Collected /\ HoldsFilenames(payload.files)
  /\ Len(CollectedPaths) = 2
  /\ CollectedPaths[1] = <<"a", "LF">> /\ CollectedPaths[2] = <<"a">>

-----------------------------------------------------------------------------
(* C11: a file list that cannot be decoded *)

\* the payload advertises a file list that is not an array of filenames
Undecodable(pb) == pb.avail /\ ~HoldsFilenames(pb)

\* C11: when the payload advertises a file list that cannot be decoded as a
\* whole (property list missing, not an array, or holding a non-string),
\* collect_paths yields no paths and the Enter or Drop callback goes on
\* normally (it returns, having dispatched to the listener or routed) instead
\* of failing.
C11_UndecodableIsNoPaths ==
  (stage \in {"Enter", "Drop"} /\ Undecodable(payload.files)) =>
    /\ ret # "panic"
    /\ Collected /\ CollectedPaths = <<>>
    /\ stage = "Enter" => Len(ListenerCalls) = 1
    /\ stage = "Drop" => Len(SuperCalls) = 1

-----------------------------------------------------------------------------
(* C12: a claiming listener and the native default handling *)

\* the listener claimed the event of the callback that ran last
Claimed == Len(ListenerCalls) = 1 /\ ListenerCalls[1].res

\* C12 (as stated): whenever the listener returns claimed for an event, the
\* native default handling of that callback is not run, at every stage
\* (Enter, Over, Drop, Leave).
C12_ClaimSuppressesNative ==
  Claimed => SuperCalls = <<>>

\* C12 (amended): whenever the listener returns claimed for an Enter, Over or
\* Leave event, the native default handling of that callback is not run; a
\* claimed Drop event does not suppress the native Perform handling, which
\* runs once all the same.
C12_ClaimSuppressesNativeButDrop ==
  Claimed =>
    /\ stage \in {"Enter", "Over", "Leave"} => SuperCalls = <<>>
    /\ stage = "Drop" =>
         Len(SuperCalls) = 1 /\ SuperCalls[1].sel = "performDragOperation"

\* C12 witness: the listener claimed an Enter event with paths and the
\* superclass was not called
C12_Witness ==
  /\ stage = "Enter" /\ Claimed /\ SuperCalls = <<>>
  /\ ListenerCalls[1].event.paths # <<>>

-----------------------------------------------------------------------------
(* C13, C14: the order of the calls inside a drop callback *)

\* where in the trace the calls of the given kinds are
PositionsOf(ops) == { i \in 1..Len(trace) : trace[i].op \in ops }

\* the calls that tell the listener, hand paths to the store or write the
\* payload
EffectOps == { "listener", "store_drop_paths", "setString" }

ClassifyCalls == Calls("has_internal_drag")

\* C13: the classification is queried exactly once per drop callback, before
\* any listener call, store call or payload write of that callback, and the
\* value read is the one all three routing tests go by; Enter, Over and Leave
\* callbacks never query it.
C13_ClassifiedOnceFirst ==
  /\ stage = "Drop" =>
       /\ Len(ClassifyCalls) = 1
       /\ \A i \in PositionsOf({"has_internal_drag"}) :
            \A j \in PositionsOf(EffectOps \cup {"get_internal_drag"}) : i < j
       /\ StoreCallsMade # <<>> => ClassifyCalls[1].res = 0
       /\ ListenerCalls # <<>> => ClassifyCalls[1].res = 0
       /\ Count("get_internal_drag") > 0 => ClassifyCalls[1].res # 0
  /\ stage \in {"Enter", "Over", "Leave"} => ClassifyCalls = <<>>

\* C13 witness: a drop classified once as internal (-1), with a payload write
\* after the query
C13_Witness ==
  /\ stage = "Drop" /\ Len(ClassifyCalls) = 1 /\ ClassifyCalls[1].res = -1
  /\ PositionsOf({"setString"}) # {}
  /\ \A j \in PositionsOf({"setString"}) : \A i \in PositionsOf({"has_internal_drag"}) : i < j

\* C14: in a drop callback the superclass's performDragOperation is the last
\* call: every payload write, the store call and the listener's Drop call come
\* strictly before it, and nothing is written, stored or dispatched after it.
C14_PerformLast ==
  stage = "Drop" =>
    /\ trace # <<>>
    /\ trace[Len(trace)].op = "super"
    /\ trace[Len(trace)].sel = "performDragOperation"
    /\ PositionsOf({"super"}) = {Len(trace)}
    /\ \A j \in PositionsOf(EffectOps \cup {"get_internal_drag", "has_internal_drag"}) :
         j < Len(trace)

\* C14 witness: an external drop without paths told the listener, and the
\* superclass performed after that
C14_Witness ==
  /\ stage = "Drop"
  /\ PositionsOf({"listener"}) # {}
  /\ \A j \in PositionsOf({"listener"}) : j < Len(trace)
  /\ trace[Len(trace)].op = "super"

-----------------------------------------------------------------------------
(* The CString of line 115 *)

\* no collected path holds a zero byte (CStr::from_ptr stops at the first
\* one), so the JSON text of line 114 holds none and CString::new succeeds:
\* every external drop with paths reaches the store
PathsNulFree ==
  Collected =>
    /\ \A i \in 1..Len(CollectedPaths) :
         \A k \in 1..Len(CollectedPaths[i]) : CollectedPaths[i][k] # "NUL"
    /\ CStringNewOk(PathsJson(CollectedPaths))

-----------------------------------------------------------------------------
(* C16: who writes the payload *)

ExternalDrop == stage = "Drop" /\ ~DropIsInternal

\* C16: Enter, Over and Leave callbacks and External drop callbacks never
\* write a payload representation (the payload is the same after them);
\* Enter, Over and Leave never call the store; Over never reads the file
\* list.  Payload writes happen only inside an Internal drop.
C16_WritesOnlyInInternalDrop ==
  [][/\ (stage' \in {"Enter", "Over", "Leave"} \/ ExternalDrop') =>
          payload' = payload /\ Count("setString")' = 0
     /\ stage' \in {"Enter", "Over", "Leave"} => StoreCallsMade' = <<>>
     /\ stage' = "Over" => Count("collect_paths")' = 0
     /\ Count("setString")' > 0 => InternalDrop'
    ]_vars

\* C16 witness: an External drop with paths was stored and performed, and the
\* old plain text is what the superclass found and what is still there
C16_Witness ==
  /\ ExternalDrop /\ Len(StoreCallsMade) = 1
  /\ Count("setString") = 0
  /\ payload.reps[TextType] = Rep(<<"o">>)
  /\ SeenByPerform = payload

-----------------------------------------------------------------------------
(* C18: the events the listener receives *)

\* C18: every callback gives the listener at most one event, of the variant
\* of that callback, so that the listener's events are a subsequence of the
\* native callbacks in their order; every Enter, Over and Leave callback gives
\* exactly one, and only a Drop callback (Internal, or with paths) gives none.
C18_OneEventPerCallback ==
  stage \in {"Enter", "Over", "Drop", "Leave"} =>
    /\ Len(ListenerCalls) <= 1
    /\ \A i \in 1..Len(ListenerCalls) : ListenerCalls[i].event.type = stage
    /\ stage \in {"Enter", "Over", "Leave"} => Len(ListenerCalls) = 1
    /\ (stage = "Drop" /\ ListenerCalls = <<>>) => (DropIsInternal \/ DropPaths # <<>>)

====
